---- MODULE Spec2Model ----
(***************************************************************************)
(* Model of IterativePipeline.search (iterative_pipeline.py): the round    *)
(* loop Planner -> per-intent graph path and document path -> combine ->   *)
(* Evaluator -> safety overrides -> stop / refine -> Report.               *)
(*                                                                         *)
(* Confidences and the sufficiency threshold are floats in [0,1] in the    *)
(* code; here they are integers in tenths (0.8 is 8, 0.9 is 9, 1.0 is 10). *)
(* Texts that the code strips (LLM message contents) are sequences of      *)
(* one-character strings, so that strip() is computed, not assumed.        *)
(***************************************************************************)
EXTENDS Integers, Sequences, FiniteSets, TLC

\* ---------------------------------------------------------------- bounds
\* largest configured max_iterations explored (PIPELINE_MAX_ITERATIONS)
MaxIter == 4
\* largest number of intents a Planner response carries in the model
MaxIntents == 2
\* largest number of records one structured-store query returns
MaxRecords == 1
\* largest documents_found one document search returns
MaxDocuments == 1
\* largest number of columns a RETURN clause of a generated query lists
MaxColumns == 2
\* max_iterations of the pipeline instance two sessions share
MaxSessionRounds == 2

\* ------------------------------------------------------ program constants
\* PIPELINE_SUFFICIENCY_THRESHOLD default "0.8", in tenths
DefaultThreshold == 8
\* max(sufficiency_analysis.confidence, 0.8), in tenths
ConfidenceWithResults == 8
\* sufficiency_analysis.confidence = 0.9, in tenths
ConfidenceNoData == 9
\* iteration_num >= 2 of the first safety mechanism
MinIterationWithResults == 2
\* iteration_num >= 3 of the second safety mechanism
MinIterationNoData == 3
\* len(cypher_query.strip()) < 5 of validate_cypher
MinQueryLength == 5

\* ------------------------------------------------------------ input sets
\* configured thresholds: 0.5, the default and 1.0
Thresholds == {5, DefaultThreshold, 10}
\* the caller's query, an Evaluator follow-up and the message content of the
\* Refinement collaborator before strip(); texts are sequences, <<>> is ''
UserQuery == <<"user_query">>
FollowupText == <<"followup">>
RefinedText == <<" ", "refined", " ">>
\* message contents of the Report collaborator, before strip()
ReportContents == {<<" ">>, <<" ", "a", " ">>}

NoResult == [kind |-> "none"]

\* an invocation of a collaborator and what it answered
Call(collaborator, reply) == [collaborator |-> collaborator, reply |-> reply]

Max(a, b) == IF a >= b THEN a ELSE b

VARIABLES
    pc,                     \* position of search(): the state of the controller
    max_iterations,         \* self.max_iterations
    sufficiency_threshold,  \* self.sufficiency_threshold
    rag_system,             \* self.rag_agent.rag_system: "None" or "CodeRAGSystem"
    max_intents,            \* most intents the session's Planner puts in a response
    iteration_num,          \* loop variable of range(1, max_iterations + 1)
    iterations,             \* list of SearchIteration
    all_records,            \* records collected from all iterations
    current_query,          \* query handed to the Planner
    query_intents,          \* number of intents of the round's Planner response
    intent_result,          \* the intent_result dict under construction
    all_intent_results,     \* intent results of the round, <<>> once combined
    sufficiency_analysis,   \* the round's analysis after the overrides, until line 293
    evaluated,              \* what _analyze_combined_sufficiency returned this round
    last_call,              \* the collaborator invoked most recently and its reply
    search_results,         \* the summaries put in the Report prompt, line 448
    result,                 \* the SearchResult returned, NoResult while running
    translation,            \* locals of one translate_to_cypher call and its caller
    sessions                \* locals of the search() calls running on one instance

vars == <<pc, max_iterations, sufficiency_threshold, rag_system, max_intents,
          iteration_num, iterations,
          all_records, current_query, query_intents, intent_result,
          all_intent_results, sufficiency_analysis, evaluated, last_call,
          search_results, result, translation, sessions>>

\* ------------------------------------------------------- per-intent paths
\* outcomes of lines 117-142 for one intent
GraphOutcomes ==
    {[kind |-> "translator_failed"], [kind |-> "validation_failed"],
     [kind |-> "store_failed"]}
    \cup {[kind |-> "executed", count |-> k] : k \in 0..MaxRecords}

\* outcomes of lines 144-171 for one intent: is_available() is False when
\* rag_system is None, and may be False or True otherwise
RagOutcomes(rag) ==
    IF rag = "None" THEN {[kind |-> "unavailable"]}
    ELSE {[kind |-> "unavailable"], [kind |-> "exception"], [kind |-> "search_failed"]}
         \cup {[kind |-> "found", count |-> d] : d \in 0..MaxDocuments}

\* the records QueryExecutor.execute returns for intent i of round r
StoreRecords(r, i, k) == [j \in 1..k |-> <<r, i, j>>]

\* mutant: a query that failed validation is executed all the same
GraphResult_validation_ignored(outcome, r, i) ==
    IF outcome.kind = "executed"
    THEN [success |-> TRUE, records_count |-> outcome.count, has_result |-> TRUE,
          records |-> StoreRecords(r, i, outcome.count)]
    ELSE IF outcome.kind = "store_failed"
    THEN [success |-> FALSE, records_count |-> 0, has_result |-> TRUE,
          records |-> <<>>]
    ELSE IF outcome.kind = "validation_failed"
    THEN [success |-> TRUE, records_count |-> MaxRecords, has_result |-> TRUE,
          records |-> StoreRecords(r, i, MaxRecords)]
    ELSE [success |-> FALSE, records_count |-> 0, has_result |-> FALSE,
          records |-> <<>>]

\* intent_result['graph_result'] as built at lines 123-142
GraphResult(outcome, r, i) ==
    IF outcome.kind = "executed"
    THEN [success |-> TRUE, records_count |-> outcome.count, has_result |-> TRUE,
          records |-> StoreRecords(r, i, outcome.count)]
    ELSE IF outcome.kind = "store_failed"
    THEN [success |-> FALSE, records_count |-> 0, has_result |-> TRUE,
          records |-> <<>>]
    ELSE [success |-> FALSE, records_count |-> 0, has_result |-> FALSE,
          records |-> <<>>]

\* intent_result['rag_result'] as built at lines 145-171
RagResult(outcome) ==
    IF outcome.kind = "found"
    THEN [success |-> TRUE, documents_count |-> outcome.count]
    ELSE [success |-> FALSE, documents_count |-> 0]

\* mutant: a path that succeeded makes the intent a success whatever it found
IntentSuccess_ignores_counts(graph_result, rag_result) ==
    graph_result.success \/ rag_result.success

\* intent_result['success'], lines 203-206
IntentSuccess(graph_result, rag_result) ==
    \/ graph_result.success /\ graph_result.records_count > 0
    \/ rag_result.success /\ rag_result.documents_count > 0

\* ------------------------------------------------------------ aggregation
\* successful_queries of _combine_intent_results
RECURSIVE SuccessfulQueries(_)
SuccessfulQueries(results) ==
    IF results = <<>> THEN 0
    ELSE (IF Head(results).graph_result.success /\ Head(results).graph_result.has_result
          THEN 1 ELSE 0) + SuccessfulQueries(Tail(results))

\* combined_records of _combine_intent_results, in intent order
RECURSIVE CombinedRecords(_)
CombinedRecords(results) ==
    IF results = <<>> THEN <<>>
    ELSE (IF Head(results).graph_result.success /\ Head(results).graph_result.has_result
          THEN Head(results).graph_result.records ELSE <<>>)
         \o CombinedRecords(Tail(results))

\* mutant: the combined result succeeds when an intent result succeeded
_combine_intent_results_any_intent(results) ==
    [records |-> CombinedRecords(results),
     success |-> \E k \in 1..Len(results) : results[k].success]

\* _combine_intent_results, lines 589-632
_combine_intent_results(results) ==
    [records |-> CombinedRecords(results),
     success |-> SuccessfulQueries(results) > 0]

\* sum of records_count over the intents whose graph path succeeded
RECURSIVE TotalGraphRecords(_)
TotalGraphRecords(results) ==
    IF results = <<>> THEN 0
    ELSE (IF Head(results).graph_result.success
          THEN Head(results).graph_result.records_count ELSE 0)
         + TotalGraphRecords(Tail(results))

\* sum of documents_count over the intents whose document path succeeded
RECURSIVE TotalRagDocuments(_)
TotalRagDocuments(results) ==
    IF results = <<>> THEN 0
    ELSE (IF Head(results).rag_result.success
          THEN Head(results).rag_result.documents_count ELSE 0)
         + TotalRagDocuments(Tail(results))

\* successful_intents of _analyze_combined_sufficiency
RECURSIVE SuccessfulIntents(_)
SuccessfulIntents(results) ==
    IF results = <<>> THEN 0
    ELSE (IF Head(results).success THEN 1 ELSE 0) + SuccessfulIntents(Tail(results))

\* ------------------------------------------------------------- evaluation
\* parsed SufficiencyAnalysis objects the Evaluator returns in the model:
\* sufficient with full confidence, sufficient with low confidence and no
\* follow-up, insufficient with a follow-up
ParsedAnalyses ==
    {[sufficient |-> TRUE, confidence |-> 10, missing_info |-> "",
      suggested_followup |-> <<>>],
     [sufficient |-> TRUE, confidence |-> 5, missing_info |-> "missing",
      suggested_followup |-> <<>>],
     [sufficient |-> FALSE, confidence |-> 5, missing_info |-> "missing",
      suggested_followup |-> FollowupText]}

\* replies of the Evaluator collaborator: an exception, a refusal or a parsed
\* SufficiencyAnalysis
EvaluatorReplies ==
    {[kind |-> "exception"], [kind |-> "refusal"]}
    \cup {[kind |-> "parsed", analysis |-> a] : a \in ParsedAnalyses}

SufficiencyAnalysis(s, c, m, f) ==
    [sufficient |-> s, confidence |-> c, missing_info |-> m, suggested_followup |-> f]

\* the early return at lines 660-667: the Evaluator is not invoked
NoResultsAtAll(results) ==
    /\ SuccessfulIntents(results) = 0
    /\ TotalGraphRecords(results) = 0
    /\ TotalRagDocuments(results) = 0

\* mutant: the early return suggests no follow-up
_analyze_combined_sufficiency_no_followup(original_query, results, reply) ==
    IF NoResultsAtAll(results)
    THEN SufficiencyAnalysis(FALSE, 0,
            "No results found from either graph database or document search",
            <<>>)
    ELSE IF reply.kind = "refusal"
    THEN SufficiencyAnalysis(FALSE, 0, "Analysis was refused for safety reasons",
            original_query)
    ELSE IF reply.kind = "exception"
    THEN SufficiencyAnalysis(FALSE, 0, "Unable to analyze combined results sufficiency",
            original_query)
    ELSE reply.analysis

\* mutant: a refusal is taken for a sufficient answer
_analyze_combined_sufficiency_refusal_sufficient(original_query, results, reply) ==
    IF NoResultsAtAll(results)
    THEN SufficiencyAnalysis(FALSE, 0,
            "No results found from either graph database or document search",
            original_query)
    ELSE IF reply.kind = "refusal"
    THEN SufficiencyAnalysis(TRUE, 0, "Analysis was refused for safety reasons",
            original_query)
    ELSE IF reply.kind = "exception"
    THEN SufficiencyAnalysis(FALSE, 0, "Unable to analyze combined results sufficiency",
            original_query)
    ELSE reply.analysis

\* _analyze_combined_sufficiency, lines 634-731
_analyze_combined_sufficiency(original_query, results, reply) ==
    IF NoResultsAtAll(results)
    THEN SufficiencyAnalysis(FALSE, 0,
            "No results found from either graph database or document search",
            original_query)
    ELSE IF reply.kind = "refusal"
    THEN SufficiencyAnalysis(FALSE, 0, "Analysis was refused for safety reasons",
            original_query)
    ELSE IF reply.kind = "exception"
    THEN SufficiencyAnalysis(FALSE, 0, "Unable to analyze combined results sufficiency",
            original_query)
    ELSE reply.analysis

\* mutant: the second mechanism waits one iteration more
SafetyOverrides_zero_rule_one_round_later(analysis, combined, n) ==
    IF combined.success /\ Len(combined.records) > 0 /\ n >= MinIterationWithResults
    THEN [analysis EXCEPT !.sufficient = TRUE,
                          !.confidence = Max(analysis.confidence, ConfidenceWithResults)]
    ELSE IF combined.success /\ Len(combined.records) = 0 /\ n >= MinIterationNoData + 1
    THEN [analysis EXCEPT !.sufficient = TRUE,
                          !.confidence = ConfidenceNoData,
                          !.missing_info = "",
                          !.suggested_followup = <<>>]
    ELSE analysis

\* mutant: the second mechanism does not ask whether a query succeeded
SafetyOverrides_ignores_query_success(analysis, combined, n) ==
    IF combined.success /\ Len(combined.records) > 0 /\ n >= MinIterationWithResults
    THEN [analysis EXCEPT !.sufficient = TRUE,
                          !.confidence = Max(analysis.confidence, ConfidenceWithResults)]
    ELSE IF Len(combined.records) = 0 /\ n >= MinIterationNoData
    THEN [analysis EXCEPT !.sufficient = TRUE,
                          !.confidence = ConfidenceNoData,
                          !.missing_info = "",
                          !.suggested_followup = <<>>]
    ELSE analysis

\* mutant: the first mechanism waits for iteration 3 like the second
SafetyOverrides_results_from_round_3(analysis, combined, n) ==
    IF combined.success /\ Len(combined.records) > 0 /\ n >= MinIterationNoData
    THEN [analysis EXCEPT !.sufficient = TRUE,
                          !.confidence = Max(analysis.confidence, ConfidenceWithResults)]
    ELSE IF combined.success /\ Len(combined.records) = 0 /\ n >= MinIterationNoData
    THEN [analysis EXCEPT !.sufficient = TRUE,
                          !.confidence = ConfidenceNoData,
                          !.missing_info = "",
                          !.suggested_followup = <<>>]
    ELSE analysis

\* mutant: the second mechanism forces the analysis but keeps its feedback
SafetyOverrides_keeps_feedback(analysis, combined, n) ==
    IF combined.success /\ Len(combined.records) > 0 /\ n >= MinIterationWithResults
    THEN [analysis EXCEPT !.sufficient = TRUE,
                          !.confidence = Max(analysis.confidence, ConfidenceWithResults)]
    ELSE IF combined.success /\ Len(combined.records) = 0 /\ n >= MinIterationNoData
    THEN [analysis EXCEPT !.sufficient = TRUE,
                          !.confidence = ConfidenceNoData]
    ELSE analysis

\* the two safety mechanisms, lines 240-258
SafetyOverrides(analysis, combined, n) ==
    IF combined.success /\ Len(combined.records) > 0 /\ n >= MinIterationWithResults
    THEN [analysis EXCEPT !.sufficient = TRUE,
                          !.confidence = Max(analysis.confidence, ConfidenceWithResults)]
    ELSE IF combined.success /\ Len(combined.records) = 0 /\ n >= MinIterationNoData
    THEN [analysis EXCEPT !.sufficient = TRUE,
                          !.confidence = ConfidenceNoData,
                          !.missing_info = "",
                          !.suggested_followup = <<>>]
    ELSE analysis

\* _merge_all_summaries, lines 545-587: the merged overview of the successful
\* intents, or the fixed text when no intent succeeded
_merge_all_summaries(results) ==
    IF SuccessfulIntents(results) = 0
    THEN "No successful results found across all query intents."
    ELSE "**Comprehensive Analysis Results**"

\* mutant: iterations numbered from 0
SearchIteration_zero_based(n, results, combined, analysis) ==
    [iteration_number |-> n - 1,
     records_count |-> TotalGraphRecords(results),
     sufficient |-> analysis.sufficient,
     confidence |-> analysis.confidence,
     feedback |-> analysis.missing_info,
     query_success |-> combined.success,
     rag_documents_count |-> TotalRagDocuments(results),
     result_summary |-> _merge_all_summaries(results)]

\* the SearchIteration built at lines 260-273
SearchIteration(n, results, combined, analysis) ==
    [iteration_number |-> n,
     records_count |-> TotalGraphRecords(results),
     sufficient |-> analysis.sufficient,
     confidence |-> analysis.confidence,
     feedback |-> analysis.missing_info,
     query_success |-> combined.success,
     rag_documents_count |-> TotalRagDocuments(results),
     result_summary |-> _merge_all_summaries(results)]

\* mutant: the threshold is not consulted
StopCondition_sufficient_only(analysis, threshold) ==
    analysis.sufficient

\* mutant: the confidence must exceed the threshold
StopCondition_strict(analysis, threshold) ==
    analysis.sufficient /\ analysis.confidence > threshold

\* the stop test at lines 278-279
StopCondition(analysis, threshold) ==
    analysis.sufficient /\ analysis.confidence >= threshold

\* ------------------------------------------------------------ str.strip
\* str.strip() on a text: leading blanks removed
RECURSIVE LStrip(_)
LStrip(text) ==
    IF text # <<>> /\ Head(text) = " " THEN LStrip(Tail(text)) ELSE text

\* str.strip() on a text: trailing blanks removed
RECURSIVE RStrip(_)
RStrip(text) ==
    IF text # <<>> /\ text[Len(text)] = " "
    THEN RStrip(SubSeq(text, 1, Len(text) - 1)) ELSE text

Strip(text) == RStrip(LStrip(text))

\* ------------------------------------------------------- query refinement
\* replies of the Refinement collaborator: an exception or a rewritten query
RefinementReplies == {[kind |-> "exception"], [kind |-> "content", text |-> RefinedText]}

\* mutant: the content is returned as received
_refine_query_for_next_iteration_unstripped(original_query, reply) ==
    IF reply.kind = "content" THEN reply.text ELSE original_query

\* _refine_query_for_next_iteration: the stripped content, or the original
\* query when the call raised
_refine_query_for_next_iteration(original_query, reply) ==
    IF reply.kind = "content" THEN Strip(reply.text) ELSE original_query

\* ----------------------------------------------------------- final report
\* all_summaries, lines 429-436: iteration number and summary of every
\* iteration with query_success and a non-empty result_summary, in order
RECURSIVE all_summaries(_)
all_summaries(its) ==
    IF its = <<>> THEN <<>>
    ELSE (IF Head(its).query_success /\ Head(its).result_summary # ""
          THEN <<<<Head(its).iteration_number, Head(its).result_summary>>>>
          ELSE <<>>)
         \o all_summaries(Tail(its))

\* replies of the Report collaborator: an exception, a message without content
\* (content is None, so .strip() raises) or a message with content
ReportReplies ==
    {[kind |-> "exception"], [kind |-> "no_content"]}
    \cup {[kind |-> "content", text |-> t] : t \in ReportContents}

\* total_records of the fallback report, line 487
RECURSIVE FallbackTotalRecords(_)
FallbackTotalRecords(its) ==
    IF its = <<>> THEN 0
    ELSE (IF Head(its).query_success THEN Head(its).records_count ELSE 0)
         + FallbackTotalRecords(Tail(its))

\* mutant: the fallback is the fixed text whatever the iterations
_format_final_results_fixed_fallback(its, reply) ==
    IF reply.kind = "content" THEN Strip(reply.text)
    ELSE <<"No search iterations completed.">>

\* mutant: a message without content is formatted as an empty report
_format_final_results_none_as_empty(its, reply) ==
    IF reply.kind = "content" THEN Strip(reply.text)
    ELSE IF reply.kind = "no_content" THEN <<>>
    ELSE IF its = <<>> THEN <<"No search iterations completed.">>
    ELSE <<"# Analysis Results", "Found ", ToString(FallbackTotalRecords(its)),
           " results across ", ToString(Len(its)), " iterations.">>

\* _format_final_results: the stripped report, or the fallback text when the
\* Report call raised
_format_final_results(its, reply) ==
    IF reply.kind = "content" THEN Strip(reply.text)
    ELSE IF its = <<>> THEN <<"No search iterations completed.">>
    ELSE <<"# Analysis Results", "Found ", ToString(FallbackTotalRecords(its)),
           " results across ", ToString(Len(its)), " iterations.">>

\* ---------------------------------------------------------- SearchResult
\* mutant: the error result starts from an empty iteration list
_create_error_result_drops_iterations(error_message, its) ==
    [kind |-> "SearchResult",
     iterations |-> <<>>,
     final_answer |-> <<"Search failed: ", error_message>>,
     success |-> FALSE,
     error_message |-> error_message,
     records |-> <<>>]

\* _create_error_result, lines 745-753
_create_error_result(error_message, its) ==
    [kind |-> "SearchResult",
     iterations |-> its,
     final_answer |-> <<"Search failed: ", error_message>>,
     success |-> FALSE,
     error_message |-> error_message,
     records |-> <<>>]

\* mutant: a session without records is reported as failed
SuccessResult_needs_records(its, final_answer, records) ==
    [kind |-> "SearchResult",
     iterations |-> its,
     final_answer |-> final_answer,
     success |-> records # <<>>,
     error_message |-> "",
     records |-> records]

\* the SearchResult built at lines 305-312
SuccessResult(its, final_answer, records) ==
    [kind |-> "SearchResult",
     iterations |-> its,
     final_answer |-> final_answer,
     success |-> TRUE,
     error_message |-> "",
     records |-> records]

\* ============================================================= Translator
\* A Cypher text is a sequence of lexical tokens: words, single punctuation
\* characters, blanks (" " and "\n") and markdown fences.  The string
\* operations of TranslatorAgent are computed on these sequences.
Blanks == {" ", "\n"}
\* "~~~" stands for the markdown fence of three backquotes
Fences == {"~~~cypher", "~~~"}
Punctuation == {"(", ")", "[", "]", "{", "}", ",", "."}

IsWord(t) == t \notin Blanks \cup Fences \cup Punctuation

\* str.upper() of a token
Upper(t) ==
    CASE t = "union" -> "UNION"
      [] t = "exists" -> "EXISTS"
      [] t = "reunion" -> "REUNION"
      [] t = "name" -> "NAME"
      [] t = "path" -> "PATH"
      [] t = "n" -> "N"
      [] t = "m" -> "M"
      [] t = "x" -> "X"
      [] t = "y" -> "Y"
      [] OTHER -> t

\* str.lower() of a token used as a column name
Lower(t) ==
    CASE t = "X" -> "x"
      [] t = "Y" -> "y"
      [] OTHER -> t

\* len() of a token
TokenLen(t) ==
    CASE t \in {"MATCH", "WHERE", "ORDER", "UNION", "union"} -> 5
      [] t \in {"RETURN", "CREATE", "exists"} -> 6
      [] t = "reunion" -> 7
      [] t = "~~~cypher" -> 9
      [] t \in {"SET", "~~~"} -> 3
      [] t \in {"AS", "BY"} -> 2
      [] t \in {"name", "path"} -> 4
      [] OTHER -> 1

RECURSIVE TextLen(_)
TextLen(q) == IF q = <<>> THEN 0 ELSE TokenLen(Head(q)) + TextLen(Tail(q))

\* keyword in cypher_upper: the keyword is a substring of an upper-cased token
Contains(q, keyword) ==
    \E k \in 1..Len(q) :
        \/ Upper(q[k]) = keyword
        \/ keyword = "UNION" /\ Upper(q[k]) = "REUNION"

\* str.count of a one-character string
RECURSIVE Count(_, _)
Count(q, c) ==
    IF q = <<>> THEN 0 ELSE (IF Head(q) = c THEN 1 ELSE 0) + Count(Tail(q), c)

\* blanks at both ends removed
RECURSIVE LStripBlanks(_)
LStripBlanks(q) ==
    IF q # <<>> /\ Head(q) \in Blanks THEN LStripBlanks(Tail(q)) ELSE q

RECURSIVE RStripBlanks(_)
RStripBlanks(q) ==
    IF q # <<>> /\ q[Len(q)] \in Blanks
    THEN RStripBlanks(SubSeq(q, 1, Len(q) - 1)) ELSE q

StripBlanks(q) == RStripBlanks(LStripBlanks(q))

\* re.sub of a fence followed by any whitespace: the fence and the blanks after it removed
RECURSIVE RemoveFence(_, _)
RemoveFence(q, fence) ==
    IF q = <<>> THEN <<>>
    ELSE IF Head(q) = fence THEN RemoveFence(LStripBlanks(Tail(q)), fence)
    ELSE <<Head(q)>> \o RemoveFence(Tail(q), fence)

\* ' '.join(q.split()): every run of blanks becomes one space, none at the ends
RECURSIVE JoinSplit(_)
JoinSplit(q) ==
    LET rest == LStripBlanks(q)
    IN IF rest = <<>> THEN <<>>
       ELSE IF Tail(rest) # <<>> /\ Head(Tail(rest)) \in Blanks
       THEN (IF LStripBlanks(Tail(rest)) = <<>> THEN <<Head(rest)>>
             ELSE <<Head(rest), " ">> \o JoinSplit(Tail(rest)))
       ELSE <<Head(rest)>> \o JoinSplit(Tail(rest))

\* variant: only the whitespace is normalised, the fences stay
_clean_cypher_query_keeps_fences(cypher_query) ==
    StripBlanks(JoinSplit(cypher_query))

\* _clean_cypher_query, lines 286-303
_clean_cypher_query(cypher_query) ==
    StripBlanks(JoinSplit(RemoveFence(RemoveFence(cypher_query, "~~~cypher"), "~~~")))

\* str.split / re.split at every token of seps
RECURSIVE Split(_, _)
Split(q, seps) ==
    IF \A k \in 1..Len(q) : q[k] \notin seps THEN <<q>>
    ELSE LET k == CHOOSE i \in 1..Len(q) :
                      q[i] \in seps /\ \A j \in 1..(i - 1) : q[j] \notin seps
         IN <<SubSeq(q, 1, k - 1)>> \o Split(SubSeq(q, k + 1, Len(q)), seps)

\* the words of q that re.split(r'\bUNION\b', ..., re.IGNORECASE) splits at
UnionWords(q) == {q[k] : k \in {i \in 1..Len(q) : Upper(q[i]) = "UNION"}}

\* the words that end the RETURN clause in the regular expression of line 241
ClauseEnd == {"ORDER", "LIMIT", "WHERE"}

NoMatch == [match |-> FALSE]

\* re.search(r'\bRETURN\s+(.+?)(?:\s+ORDER|\s+LIMIT|\s+WHERE|$)', part):
\* group 1 of the leftmost match, or NoMatch
ReturnClause(part) ==
    LET starts == {k \in 1..Len(part) :
                      /\ Upper(part[k]) = "RETURN"
                      /\ k + 1 <= Len(part)
                      /\ part[k + 1] \in Blanks
                      /\ LStripBlanks(SubSeq(part, k + 1, Len(part))) # <<>>}
    IN IF starts = {} THEN NoMatch
       ELSE LET k == CHOOSE i \in starts : \A j \in starts : i <= j
                body == LStripBlanks(SubSeq(part, k + 1, Len(part)))
                ends == {i \in 1..Len(body) :
                            \/ i = Len(body)
                            \/ /\ body[i + 1] \in Blanks
                               /\ LET rest == LStripBlanks(SubSeq(body, i + 1, Len(body)))
                                  IN rest # <<>> /\ Upper(Head(rest)) \in ClauseEnd}
                e == CHOOSE i \in ends : \A j \in ends : i <= j
            IN [match |-> TRUE, clause |-> SubSeq(body, 1, e)]

\* ' AS ' in col.upper()
HasAs(col) ==
    \E k \in 2..(Len(col) - 1) :
        Upper(col[k]) = "AS" /\ col[k - 1] = " " /\ col[k + 1] = " "

\* the names one column adds to the list of its branch (lines 249-260):
\* the lower-cased alias, else the lower-cased text after the last dot with
\* everything but word characters removed; nothing when that is empty
RECURSIVE WordsOf(_)
WordsOf(q) ==
    IF q = <<>> THEN <<>>
    ELSE (IF IsWord(Head(q)) THEN <<Lower(Head(q))>> ELSE <<>>) \o WordsOf(Tail(q))

ColumnName(column) ==
    LET col == StripBlanks(column)
    IN IF HasAs(col)
       THEN LET found == {k \in 1..Len(col) :
                             /\ Upper(col[k]) = "AS"
                             /\ k + 1 <= Len(col)
                             /\ col[k + 1] \in Blanks
                             /\ LET rest == LStripBlanks(SubSeq(col, k + 1, Len(col)))
                                IN rest # <<>> /\ IsWord(Head(rest))}
            IN IF found = {} THEN <<>>
               ELSE LET k == CHOOSE i \in found : \A j \in found : i <= j
                    IN <<<<Lower(Head(LStripBlanks(SubSeq(col, k + 1, Len(col)))))>>>>
       ELSE LET pieces == Split(col, {"."})
                clean_col == WordsOf(pieces[Len(pieces)])
            IN IF clean_col = <<>> THEN <<>> ELSE <<clean_col>>

RECURSIVE ColumnNames(_)
ColumnNames(cols) ==
    IF cols = <<>> THEN <<>>
    ELSE ColumnName(Head(cols)) \o ColumnNames(Tail(cols))

\* return_columns of _validate_union_query: one list of names for every
\* non-empty part that has a RETURN clause
RECURSIVE return_columns(_)
return_columns(union_parts) ==
    IF union_parts = <<>> THEN <<>>
    ELSE LET part == StripBlanks(Head(union_parts))
             return_match == ReturnClause(part)
         IN (IF part # <<>> /\ return_match.match
             THEN <<ColumnNames(Split(StripBlanks(return_match.clause), {","}))>>
             ELSE <<>>)
            \o return_columns(Tail(union_parts))

\* variant: only the column counts of the branches are compared
_validate_union_query_names_lenient(cypher_query) ==
    LET union_parts == Split(cypher_query, UnionWords(cypher_query))
        columns == return_columns(union_parts)
    IN IF Len(union_parts) < 2 THEN TRUE
       ELSE \/ columns = <<>>
            \/ \A i \in 2..Len(columns) : Len(columns[i]) = Len(columns[1])

\* _validate_union_query, lines 215-284
_validate_union_query(cypher_query) ==
    LET union_parts == Split(cypher_query, UnionWords(cypher_query))
        columns == return_columns(union_parts)
    IN IF Len(union_parts) < 2 THEN TRUE
       ELSE \/ columns = <<>>
            \/ \A i \in 2..Len(columns) :
                   /\ Len(columns[i]) = Len(columns[1])
                   /\ \A j \in 1..Len(columns[1]) : columns[i][j] = columns[1][j]

\* re.search(r'\bexists\s*\([^)]+\.[^)]+\)', q, re.IGNORECASE), line 204
HasDeprecatedExists(q) ==
    \E k \in 1..Len(q) :
        /\ Upper(q[k]) = "EXISTS"
        /\ LET rest == LStripBlanks(SubSeq(q, k + 1, Len(q)))
           IN /\ rest # <<>>
              /\ Head(rest) = "("
              /\ \E c \in 2..Len(rest) :
                     /\ rest[c] = ")"
                     /\ \A i \in 2..(c - 1) : rest[i] # ")"
                     /\ \E d \in 3..(c - 2) : rest[d] = "."

required_keywords == {"MATCH", "CREATE", "MERGE", "DELETE", "SET", "REMOVE"}

BracketPairs == {<<"(", ")">>, <<"[", "]">>, <<"{", "}">>}

\* variant: RETURN is required whatever the keyword
validate_cypher_return_required(cypher_query) ==
    /\ cypher_query # <<>>
    /\ TextLen(StripBlanks(cypher_query)) >= MinQueryLength
    /\ \E keyword \in required_keywords : Contains(cypher_query, keyword)
    /\ Contains(cypher_query, "RETURN")
    /\ \A pair \in BracketPairs :
           Count(cypher_query, pair[1]) = Count(cypher_query, pair[2])
    /\ (Contains(cypher_query, "UNION") => _validate_union_query(cypher_query))
    /\ ~HasDeprecatedExists(cypher_query)

\* validate_cypher, lines 160-213
validate_cypher(cypher_query) ==
    /\ cypher_query # <<>>
    /\ TextLen(StripBlanks(cypher_query)) >= MinQueryLength
    /\ \E keyword \in required_keywords : Contains(cypher_query, keyword)
    /\ ~(Contains(cypher_query, "MATCH") /\ ~Contains(cypher_query, "RETURN"))
    /\ \A pair \in BracketPairs :
           Count(cypher_query, pair[1]) = Count(cypher_query, pair[2])
    /\ (Contains(cypher_query, "UNION") => _validate_union_query(cypher_query))
    /\ ~HasDeprecatedExists(cypher_query)

\* ------------------------------------------------------------------ state
\* The sessions explored.  Without a document index (RAGAgent.rag_system is
\* None) a single-intent session is followed through MaxIter rounds under
\* every threshold, and a session with up to MaxIntents intents a round
\* through MinIterationNoData rounds (where both safety mechanisms have
\* acted) under the default threshold.  With an index, a single-intent
\* session is followed through MinIterationNoData rounds under the default
\* threshold and through two rounds under the others, and a session with up to
\* MaxIntents intents a round through one round.
Sessions ==
    {[rag_system |-> "None", max_intents |-> 1,
      max_iterations |-> m, sufficiency_threshold |-> t] :
        m \in 0..MaxIter, t \in Thresholds}
    \cup {[rag_system |-> "None", max_intents |-> MaxIntents,
           max_iterations |-> m, sufficiency_threshold |-> DefaultThreshold] :
        m \in 1..MinIterationNoData}
    \cup {[rag_system |-> "CodeRAGSystem", max_intents |-> 1,
           max_iterations |-> m, sufficiency_threshold |-> DefaultThreshold] :
        m \in 1..MinIterationNoData}
    \cup {[rag_system |-> "CodeRAGSystem", max_intents |-> 1,
           max_iterations |-> m, sufficiency_threshold |-> t] :
        m \in 1..2, t \in Thresholds \ {DefaultThreshold}}
    \cup {[rag_system |-> "CodeRAGSystem", max_intents |-> MaxIntents,
           max_iterations |-> 1, sufficiency_threshold |-> DefaultThreshold]}

Init ==
    /\ \E session \in Sessions :
        /\ rag_system = session.rag_system
        /\ max_intents = session.max_intents
        /\ max_iterations = session.max_iterations
        /\ sufficiency_threshold = session.sufficiency_threshold
    /\ pc = IF max_iterations >= 1 THEN "PLANNING" ELSE "REPORT"
    /\ iteration_num = 1
    /\ iterations = <<>>
    /\ all_records = <<>>
    /\ current_query = UserQuery
    /\ query_intents = 0
    /\ intent_result = NoResult
    /\ all_intent_results = <<>>
    /\ sufficiency_analysis = NoResult
    /\ evaluated = NoResult
    /\ last_call = Call("None", NoResult)
    /\ search_results = NoResult
    /\ result = NoResult
    /\ translation = NoResult
    /\ sessions = NoResult

\* the configuration, and with it the locals of the calls this session does
\* not make
config == <<max_iterations, sufficiency_threshold, rag_system, max_intents,
            translation, sessions>>

\* Step 1, lines 93-98: the Planner returns 1..5 intents
PlannerReturns ==
    /\ pc = "PLANNING"
    /\ \E n \in 1..max_intents :
        /\ query_intents' = n
        /\ last_call' = Call("Planner", [kind |-> "intents", count |-> n])
    /\ all_intent_results' = <<>>
    /\ intent_result' = NoResult
    /\ pc' = "EXECUTING_GRAPH"
    /\ UNCHANGED <<config, search_results, iteration_num, iterations, all_records, current_query,
                   sufficiency_analysis, evaluated, result>>

\* Step 1, lines 99-100: the Planner raises and search() returns
PlannerFails ==
    /\ pc = "PLANNING"
    /\ last_call' = Call("Planner", [kind |-> "exception"])
    /\ result' = _create_error_result("Primary agent failed", iterations)
    /\ pc' = "FAILED"
    /\ UNCHANGED <<config, search_results, iteration_num, iterations, all_records, current_query,
                   query_intents, intent_result, all_intent_results,
                   sufficiency_analysis, evaluated>>

\* Step 2.1, lines 109-142: translate, validate and execute one intent
GraphPath ==
    /\ pc = "EXECUTING_GRAPH"
    /\ \E outcome \in GraphOutcomes :
        /\ intent_result' =
              [graph_result |->
                  GraphResult(outcome, iteration_num, Len(all_intent_results) + 1)]
        /\ last_call' = Call(IF outcome.kind = "translator_failed" THEN "Translator"
                              ELSE IF outcome.kind = "validation_failed" THEN "Validator"
                              ELSE "Store", outcome)
    /\ pc' = "EXECUTING_RAG"
    /\ UNCHANGED <<config, search_results, iteration_num, iterations, all_records, current_query,
                   query_intents, all_intent_results, sufficiency_analysis,
                   evaluated, result>>

\* mutant: the round is evaluated after its first intent
RagPath_evaluates_early ==
    /\ pc = "EXECUTING_RAG"
    /\ \E outcome \in RagOutcomes(rag_system) :
        LET rag == RagResult(outcome)
            done == [graph_result |-> intent_result.graph_result,
                     rag_result |-> rag,
                     success |-> IntentSuccess(intent_result.graph_result, rag)]
        IN /\ all_intent_results' = Append(all_intent_results, done)
           /\ last_call' = IF outcome.kind = "unavailable" THEN last_call
                           ELSE Call("Documents", outcome)
    /\ intent_result' = NoResult
    /\ pc' = "EVALUATING"
    /\ UNCHANGED <<config, search_results, iteration_num, iterations, all_records,
                   current_query, query_intents, sufficiency_analysis, evaluated,
                   result>>

\* mutant: an exception of the document search abandons the remaining intents
RagPath_aborts_round ==
    /\ pc = "EXECUTING_RAG"
    /\ \E outcome \in RagOutcomes(rag_system) :
        LET rag == RagResult(outcome)
            done == [graph_result |-> intent_result.graph_result,
                     rag_result |-> rag,
                     success |-> IntentSuccess(intent_result.graph_result, rag)]
        IN /\ all_intent_results' = IF outcome.kind = "exception"
                                    THEN all_intent_results
                                    ELSE Append(all_intent_results, done)
           /\ last_call' = IF outcome.kind = "unavailable" THEN last_call
                           ELSE Call("Documents", outcome)
           /\ pc' = IF outcome.kind # "exception"
                       /\ Len(all_intent_results) + 1 < query_intents
                    THEN "EXECUTING_GRAPH" ELSE "EVALUATING"
    /\ intent_result' = NoResult
    /\ UNCHANGED <<config, search_results, iteration_num, iterations, all_records,
                   current_query, query_intents, sufficiency_analysis, evaluated,
                   result>>

\* Step 2.2-2.3, lines 144-208: document search, success flag, append
RagPath ==
    /\ pc = "EXECUTING_RAG"
    /\ \E outcome \in RagOutcomes(rag_system) :
        LET rag == RagResult(outcome)
            done == [graph_result |-> intent_result.graph_result,
                     rag_result |-> rag,
                     success |-> IntentSuccess(intent_result.graph_result, rag)]
        IN /\ all_intent_results' = Append(all_intent_results, done)
           /\ last_call' = IF outcome.kind = "unavailable" THEN last_call
                           ELSE Call("Documents", outcome)
    /\ intent_result' = NoResult
    /\ pc' = IF Len(all_intent_results) + 1 < query_intents
             THEN "EXECUTING_GRAPH" ELSE "EVALUATING"
    /\ UNCHANGED <<config, search_results, iteration_num, iterations, all_records, current_query,
                   query_intents, sufficiency_analysis, evaluated, result>>

\* Steps 3-5 and the safety mechanisms, lines 210-275
EvaluateRound ==
    /\ pc = "EVALUATING"
    /\ \E reply \in EvaluatorReplies :
        LET combined == _combine_intent_results(all_intent_results)
            analysis == _analyze_combined_sufficiency(UserQuery, all_intent_results, reply)
            forced == SafetyOverrides(analysis, combined, iteration_num)
        IN /\ all_records' = IF combined.success /\ combined.records # <<>>
                             THEN all_records \o combined.records ELSE all_records
           /\ evaluated' = analysis
           /\ sufficiency_analysis' = forced
           /\ iterations' = Append(iterations,
                  SearchIteration(iteration_num, all_intent_results, combined, forced))
           /\ last_call' = IF NoResultsAtAll(all_intent_results) THEN last_call
                           ELSE Call("Evaluator", reply)
    /\ query_intents' = 0
    /\ all_intent_results' = <<>>
    /\ pc' = "DECIDE"
    /\ UNCHANGED <<config, search_results, iteration_num, current_query, intent_result, result>>

\* lines 278-281: sufficient results, break
Stop ==
    /\ pc = "DECIDE"
    /\ StopCondition(sufficiency_analysis, sufficiency_threshold)
    /\ sufficiency_analysis' = NoResult
    /\ evaluated' = NoResult
    /\ pc' = "REPORT"
    /\ UNCHANGED <<config, search_results, iteration_num, iterations, all_records, current_query,
                   query_intents, intent_result, all_intent_results, last_call,
                   result>>

\* lines 284-286: the next round asks the suggested follow-up
UseFollowup ==
    /\ pc = "DECIDE"
    /\ ~StopCondition(sufficiency_analysis, sufficiency_threshold)
    /\ iteration_num < max_iterations
    /\ sufficiency_analysis.suggested_followup # <<>>
    /\ current_query' = sufficiency_analysis.suggested_followup
    /\ iteration_num' = iteration_num + 1
    /\ sufficiency_analysis' = NoResult
    /\ evaluated' = NoResult
    /\ pc' = "PLANNING"
    /\ UNCHANGED <<config, search_results, iterations, all_records, query_intents, intent_result,
                   all_intent_results, last_call, result>>

\* lines 287-291: the next round asks the refined query
RefineQuery ==
    /\ pc = "DECIDE"
    /\ ~StopCondition(sufficiency_analysis, sufficiency_threshold)
    /\ iteration_num < max_iterations
    /\ sufficiency_analysis.suggested_followup = <<>>
    /\ \E reply \in RefinementReplies :
        /\ current_query' = _refine_query_for_next_iteration(UserQuery, reply)
        /\ last_call' = Call("Refinement", reply)
    /\ iteration_num' = iteration_num + 1
    /\ sufficiency_analysis' = NoResult
    /\ evaluated' = NoResult
    /\ pc' = "PLANNING"
    /\ UNCHANGED <<config, search_results, iterations, all_records, query_intents, intent_result,
                   all_intent_results, result>>

\* line 284 false in the last round: the loop ends
LoopExhausted ==
    /\ pc = "DECIDE"
    /\ ~StopCondition(sufficiency_analysis, sufficiency_threshold)
    /\ iteration_num >= max_iterations
    /\ sufficiency_analysis' = NoResult
    /\ evaluated' = NoResult
    /\ pc' = "REPORT"
    /\ UNCHANGED <<config, search_results, iteration_num, iterations, all_records, current_query,
                   query_intents, intent_result, all_intent_results, last_call,
                   result>>

\* lines 295-316: the final report and the returned SearchResult
Report ==
    /\ pc = "REPORT"
    /\ \E reply \in ReportReplies :
        /\ result' = SuccessResult(iterations,
                          _format_final_results(iterations, reply), all_records)
        /\ last_call' = Call("Report", reply)
    /\ search_results' = all_summaries(iterations)
    /\ pc' = "DONE"
    /\ UNCHANGED <<config, iteration_num, iterations, all_records, current_query,
                   query_intents, intent_result, all_intent_results,
                   sufficiency_analysis, evaluated>>

Next ==
    \/ PlannerReturns
    \/ PlannerFails
    \/ GraphPath
    \/ RagPath
    \/ EvaluateRound
    \/ Stop
    \/ UseFollowup
    \/ RefineQuery
    \/ LoopExhausted
    \/ Report

Spec == Init /\ [][Next]_vars

\* ------------------------------------------- one translate_to_cypher call
\* the column expressions the generated RETURN clauses are built from
ColumnChoices ==
    { <<"n", ".", "name">>,
      <<"m", ".", "name">>,
      <<"n", ".", "name", " ", "AS", " ", "x">>,
      <<"m", ".", "path", " ", "AS", " ", "X">>,
      <<"m", ".", "path", " ", "AS", " ", "y">> }

RECURSIVE JoinColumns(_)
JoinColumns(cols) ==
    IF Len(cols) = 1 THEN cols[1]
    ELSE cols[1] \o <<",", " ">> \o JoinColumns(Tail(cols))

ReturnLists ==
    UNION {{JoinColumns(cols) : cols \in [1..n -> ColumnChoices]} : n \in 1..MaxColumns}

Branch(list) == <<"MATCH", " ", "(", "n", ")", " ", "RETURN", " ">> \o list

OrderBy == <<" ", "ORDER", " ", "BY", " ", "n", ".", "name">>

\* a generated query wrapped in a markdown block, with a line break and a
\* double space inside
Fenced(list) ==
    <<"~~~cypher", "\n", "MATCH", " ", "(", "n", ")", "\n", " ", " ", "RETURN", " ">>
        \o list \o <<"\n", "~~~">>

\* the cypher_query values of the parsed Translator response
Queries ==
    {Branch(list) : list \in ReturnLists}
    \cup {Branch(list) \o OrderBy : list \in ReturnLists}
    \cup {Fenced(list) : list \in ReturnLists}
    \cup {Branch(first) \o <<" ", "UNION", " ">> \o Branch(second) :
             first \in ReturnLists, second \in ReturnLists}
    \cup {Branch(list) \o <<"\n", "union", "\n">> \o Branch(list) \o OrderBy :
             list \in ReturnLists}
    \cup { <<>>,
           <<"SET">>,
           <<"SET", " ", "n", ".", "name">>,
           <<"CREATE", " ", "(", "n", ")">>,
           <<"RETURN", " ", "n", ".", "name">>,
           <<"MATCH", " ", "(", "n", ")">>,
           <<"MATCH", " ", "(", "n", " ", "RETURN", " ", "n", ".", "name">>,
           <<"MATCH", " ", "(", "n", ")", " ", "RETURN", " ", "[", "n", ".", "name">>,
           <<"MATCH", " ", "(", "n", ")", " ", "RETURN", " ", "{", "n", ".", "name">>,
           <<"MATCH", " ", "(", "reunion", ")", " ", "RETURN", " ", "reunion", ".", "name">>,
           <<"MATCH", " ", "(", "n", ")", " ", "WHERE", " ", "exists", "(", "n", ".", "name", ")",
             " ", "RETURN", " ", "n", ".", "name">>,
           <<"MATCH", " ", "(", "n", ")", " ", "WHERE", " ", "exists", "(", "n", ")",
             " ", "RETURN", " ", "n", ".", "name">> }

\* the state of search() outside the translate_to_cypher call
pipeline == <<pc, max_iterations, sufficiency_threshold, rag_system, max_intents,
              iteration_num, iterations, all_records, current_query,
              query_intents, intent_result, all_intent_results,
              sufficiency_analysis, evaluated, last_call, search_results,
              result, sessions>>

\* the parsed response of the Translator has arrived (line 80) in round 1 of
\* a session with the default configuration
TranslatorInit ==
    /\ rag_system = "None"
    /\ max_intents = 1
    /\ max_iterations = 1
    /\ sufficiency_threshold = DefaultThreshold
    /\ pc = "EXECUTING_GRAPH"
    /\ iteration_num = 1
    /\ iterations = <<>>
    /\ all_records = <<>>
    /\ current_query = UserQuery
    /\ query_intents = 1
    /\ intent_result = NoResult
    /\ all_intent_results = <<>>
    /\ sufficiency_analysis = NoResult
    /\ evaluated = NoResult
    /\ last_call = Call("Translator", NoResult)
    /\ search_results = NoResult
    /\ result = NoResult
    /\ sessions = NoResult
    /\ \E generated \in Queries :
           translation = [stage |-> "parsed", generated |-> generated,
                          cypher_query |-> generated, valid |-> FALSE,
                          combined_cypher_queries |-> <<>>, executed |-> <<>>]

\* line 83: cleaned_query = self._clean_cypher_query(result.cypher_query)
CleanQuery ==
    /\ translation.stage = "parsed"
    /\ translation' = [translation EXCEPT
                          !.stage = "cleaned",
                          !.cypher_query = _clean_cypher_query(translation.generated)]
    /\ UNCHANGED pipeline

\* lines 86-93: the cleaned query is validated, then returned or refused
ValidateQuery ==
    /\ translation.stage = "cleaned"
    /\ LET valid == validate_cypher(translation.cypher_query)
       IN translation' = [translation EXCEPT
                             !.stage = IF valid THEN "returned" ELSE "raised",
                             !.valid = valid]
    /\ UNCHANGED pipeline

\* iterative_pipeline.py lines 119-123: the returned query is recorded and
\* handed to the query executor, which passes it to the store as it is
ExecuteQuery ==
    /\ translation.stage = "returned"
    /\ translation' = [translation EXCEPT
                          !.stage = "executed",
                          !.combined_cypher_queries = Append(@, translation.cypher_query),
                          !.executed = Append(@, translation.cypher_query)]
    /\ UNCHANGED pipeline

TranslatorNext == CleanQuery \/ ValidateQuery \/ ExecuteQuery

TranslatorSpec == TranslatorInit /\ [][TranslatorNext]_vars

\* ------------------------------------- two search() calls on one instance
\* Every call of search() has its own locals (lines 84-87); the calls share
\* the pipeline instance, of which search() reads max_iterations.
SessionIds == {1, 2}

\* the user_query argument of a call
user_query(s) == <<"user_query", s>>

\* the records the store returns to a call in a round
SessionRecords(s, round, count) ==
    [k \in 1..count |-> [query |-> user_query(s), iteration |-> round, index |-> k]]

\* the state of the instance outside the locals of the two calls
instance == <<pc, max_iterations, sufficiency_threshold, rag_system, max_intents,
              iteration_num, iterations, all_records, current_query,
              query_intents, intent_result, all_intent_results,
              sufficiency_analysis, evaluated, last_call, search_results,
              result, translation>>

\* lines 84-87 of both calls
TwoSessionsInit ==
    /\ rag_system = "None"
    /\ max_intents = 1
    /\ max_iterations = MaxSessionRounds
    /\ sufficiency_threshold = DefaultThreshold
    /\ pc = "IDLE"
    /\ iteration_num = 1
    /\ iterations = <<>>
    /\ all_records = <<>>
    /\ current_query = UserQuery
    /\ query_intents = 0
    /\ intent_result = NoResult
    /\ all_intent_results = <<>>
    /\ sufficiency_analysis = NoResult
    /\ evaluated = NoResult
    /\ last_call = Call("None", NoResult)
    /\ search_results = NoResult
    /\ result = NoResult
    /\ translation = NoResult
    /\ sessions = [s \in SessionIds |->
                      [pc |-> "PLANNING", iteration_num |-> 1, iterations |-> <<>>,
                       all_records |-> <<>>, current_query |-> user_query(s),
                       combined_query_result |-> NoResult, result |-> NoResult]]

\* lines 93-104: the Planner answers, or fails and the call returns an error
\* result with the iterations it has
SessionPlanning(s) ==
    /\ sessions[s].pc = "PLANNING"
    /\ \E planned \in BOOLEAN :
           sessions' = [sessions EXCEPT
               ![s].pc = IF planned THEN "EXECUTING" ELSE "RETURNED",
               ![s].result = IF planned THEN NoResult
                             ELSE [success |-> FALSE, records |-> <<>>,
                                   iterations |-> sessions[s].iterations]]
    /\ UNCHANGED instance

\* lines 106-211: the round's query is executed and its results combined
SessionExecuting(s) ==
    /\ sessions[s].pc = "EXECUTING"
    /\ \E success \in BOOLEAN, count \in 0..MaxRecords :
           sessions' = [sessions EXCEPT
               ![s].pc = "COLLECTING",
               ![s].combined_query_result =
                   [success |-> success,
                    records |-> IF success
                                THEN SessionRecords(s, sessions[s].iteration_num, count)
                                ELSE <<>>]]
    /\ UNCHANGED instance

\* variant: the record list and the iteration log are attributes of the
\* instance, so a call appends to the lists of every call
SessionCollecting_instance_lists(s) ==
    /\ sessions[s].pc = "COLLECTING"
    /\ \E stop \in BOOLEAN, refined \in BOOLEAN :
         LET local == sessions[s]
             combined == local.combined_query_result
             iteration == [iteration_number |-> local.iteration_num,
                           query |-> local.current_query,
                           records_count |-> Len(combined.records),
                           query_success |-> combined.success]
             last == stop \/ local.iteration_num >= max_iterations
         IN sessions' = [t \in SessionIds |->
                [sessions[t] EXCEPT
                    !.all_records = @ \o combined.records,
                    !.iterations = Append(@, iteration),
                    !.combined_query_result = IF t = s THEN NoResult ELSE @,
                    !.pc = IF t # s THEN @ ELSE IF last THEN "REPORT" ELSE "PLANNING",
                    !.iteration_num = IF t # s \/ last THEN @ ELSE @ + 1]]
    /\ UNCHANGED instance

\* lines 213-300: the round's records are collected, the iteration is
\* appended, and the loop stops or goes on with the follow-up or the refined
\* query
SessionCollecting(s) ==
    /\ sessions[s].pc = "COLLECTING"
    /\ \E stop \in BOOLEAN, refined \in BOOLEAN :
         LET local == sessions[s]
             combined == local.combined_query_result
             iteration == [iteration_number |-> local.iteration_num,
                           query |-> local.current_query,
                           records_count |-> Len(combined.records),
                           query_success |-> combined.success]
             last == stop \/ local.iteration_num >= max_iterations
         IN sessions' = [sessions EXCEPT
                ![s].all_records = IF combined.success /\ combined.records # <<>>
                                   THEN @ \o combined.records ELSE @,
                ![s].iterations = Append(@, iteration),
                ![s].combined_query_result = NoResult,
                ![s].pc = IF last THEN "REPORT" ELSE "PLANNING",
                ![s].iteration_num = IF last THEN @ ELSE @ + 1,
                ![s].current_query = IF last \/ ~refined THEN @
                                     ELSE <<"refined", s>>]
    /\ UNCHANGED instance

\* lines 302-330: the call returns its SearchResult
SessionReport(s) ==
    /\ sessions[s].pc = "REPORT"
    /\ sessions' = [sessions EXCEPT
           ![s].pc = "RETURNED",
           ![s].result = [success |-> TRUE,
                          records |-> sessions[s].all_records,
                          iterations |-> sessions[s].iterations]]
    /\ UNCHANGED instance

TwoSessionsNext ==
    \E s \in SessionIds :
        \/ SessionPlanning(s)
        \/ SessionExecuting(s)
        \/ SessionCollecting(s)
        \/ SessionReport(s)

TwoSessionsSpec == TwoSessionsInit /\ [][TwoSessionsNext]_vars

\* ================================================================ claims
Last(seq) == seq[Len(seq)]

Returned == result # NoResult

\* sufficient AND confidence >= threshold, stated on an iteration record
MeetsStop(rec) == rec.sufficient /\ rec.confidence >= sufficiency_threshold

\* C1: in every state of a session and in every returned session the
\* iteration list holds at most max_iterations records, the record at position
\* i has iteration_number i, one record is added per round, and a returned
\* session without any record is one that never called the Planner
\* (max_iterations = 0) or whose round-1 Planner call failed.
C1_IterationsBoundedContiguous ==
    /\ Len(iterations) <= max_iterations
    /\ \A i \in 1..Len(iterations) : iterations[i].iteration_number = i
    /\ Len(iterations) \in {iteration_num - 1, iteration_num}
    /\ pc \in {"PLANNING", "EXECUTING_GRAPH", "EXECUTING_RAG", "EVALUATING"}
          => Len(iterations) = iteration_num - 1
    /\ Returned =>
          /\ result.iterations = iterations
          /\ Len(result.iterations) = 0 =>
                \/ max_iterations = 0
                \/ /\ ~result.success
                   /\ iteration_num = 1
                   /\ last_call = Call("Planner", [kind |-> "exception"])

\* C1 witness: a session returned after MaxIter rounds, one record per round.
C1_Witness ==
    /\ pc = "DONE"
    /\ max_iterations = MaxIter
    /\ Len(result.iterations) = MaxIter
    /\ result.iterations[MaxIter].iteration_number = MaxIter

\* C2: a record that satisfies the stop condition is the last record of its
\* session: the session is then deciding, reporting or DONE with exactly that
\* many records, the Planner is never asked for a further round, and a
\* returned session that stopped this way is a success.
C2_StopEndsSession ==
    \A i \in 1..Len(iterations) :
        MeetsStop(iterations[i]) =>
            /\ i = Len(iterations)
            /\ pc \in {"DECIDE", "REPORT", "DONE"}
            /\ iteration_num = i
            /\ Returned => result.success /\ Len(result.iterations) = i

\* C2 witness: a session that ran two rounds and stopped on the second.
C2_Witness ==
    /\ pc = "DONE"
    /\ max_iterations > 2
    /\ Len(result.iterations) = 2
    /\ ~MeetsStop(result.iterations[1])
    /\ MeetsStop(result.iterations[2])

\* C3: in a round r >= 2 that combined more than zero records, the record is
\* sufficient with confidence max(evaluator confidence, 0.8), whatever the
\* Evaluator step produced, and under the default threshold it is the last
\* record of the session.
C3_RecordsForceSufficient ==
    /\ \A i \in 2..Len(iterations) :
          iterations[i].records_count > 0 =>
              /\ iterations[i].sufficient
              /\ iterations[i].confidence >= 8
              /\ sufficiency_threshold = 8 =>
                    i = Len(iterations) /\ pc \in {"DECIDE", "REPORT", "DONE"}
    /\ (pc = "DECIDE" /\ iteration_num >= 2 /\ Last(iterations).records_count > 0) =>
          /\ Last(iterations).confidence =
                IF evaluated.confidence >= 8 THEN evaluated.confidence ELSE 8
          /\ sufficiency_analysis.sufficient
          /\ sufficiency_analysis.confidence = Last(iterations).confidence

\* C3 witness: round 1 found nothing, round 2 found records, the Evaluator
\* failed in round 2, and the record is sufficient with confidence 0.8.
C3_Witness ==
    /\ pc = "DECIDE"
    /\ iteration_num = 2
    /\ iterations[1].records_count = 0
    /\ iterations[2].records_count > 0
    /\ last_call = Call("Evaluator", [kind |-> "exception"])
    /\ ~evaluated.sufficient
    /\ evaluated.confidence = 0
    /\ iterations[2].sufficient
    /\ iterations[2].confidence = 8
    /\ sufficiency_threshold = 8

\* C4: when rounds 1, 2 and 3 each executed successfully with zero records,
\* round 3's record is sufficient with confidence 0.9 and empty feedback, the
\* analysis has no missing_info and no suggested_followup, and under the
\* default threshold the session has exactly 3 records, whatever
\* max_iterations is.
C4_ThreeEmptyRoundsStop ==
    (/\ Len(iterations) >= 3
     /\ \A i \in 1..3 : iterations[i].query_success /\ iterations[i].records_count = 0)
    => /\ iterations[3].sufficient
       /\ iterations[3].confidence = 9
       /\ iterations[3].feedback = ""
       /\ (pc = "DECIDE" /\ iteration_num = 3) =>
             /\ sufficiency_analysis.missing_info = ""
             /\ sufficiency_analysis.suggested_followup = <<>>
       /\ sufficiency_threshold = 8 =>
             /\ Len(iterations) = 3
             /\ pc \in {"DECIDE", "REPORT", "DONE"}

\* C4 witness: a session allowed more than 3 rounds that returned with exactly
\* 3 records, all successfully executed with zero records.
C4_Witness ==
    /\ pc = "DONE"
    /\ max_iterations > 3
    /\ sufficiency_threshold = 8
    /\ Len(result.iterations) = 3
    /\ \A i \in 1..3 :
          result.iterations[i].query_success /\ result.iterations[i].records_count = 0
    /\ result.iterations[3].sufficient
    /\ result.iterations[3].confidence = 9
    /\ result.iterations[3].feedback = ""

\* the zero-record override acted on the round just evaluated
ZeroRecordOverrideApplied ==
    /\ pc = "DECIDE"
    /\ Last(iterations).query_success
    /\ Last(iterations).records_count = 0
    /\ Last(iterations).sufficient
    /\ Last(iterations).confidence = 9
    /\ evaluated # sufficiency_analysis

\* C5: the zero-record override is applied in round r only when rounds r-2,
\* r-1 and r were all successfully executed with zero records.
C5_ZeroOverrideOnlyAfterThreeEmptyRounds ==
    ZeroRecordOverrideApplied =>
        /\ Len(iterations) >= 3
        /\ \A i \in (Len(iterations) - 2)..Len(iterations) :
              iterations[i].query_success /\ iterations[i].records_count = 0

\* C6: the safety overrides only raise: the record's sufficient flag and
\* confidence are each at least what the Evaluator step produced.
C6_OverridesOnlyRaise ==
    pc = "DECIDE" =>
        /\ evaluated.sufficient => Last(iterations).sufficient
        /\ Last(iterations).confidence >= evaluated.confidence

\* C7: when the Planner call of round r fails, the session returned is a
\* failure with an error message and exactly the r-1 records completed
\* before, and the failed Planner call is the last collaborator call made.
C7_PlannerFailureReturnsAtOnce ==
    (Returned /\ ~result.success) =>
        /\ pc = "FAILED"
        /\ last_call = Call("Planner", [kind |-> "exception"])
        /\ result.error_message # ""
        /\ result.iterations = iterations
        /\ Len(result.iterations) = iteration_num - 1
        /\ \A i \in 1..Len(result.iterations) :
              result.iterations[i].iteration_number = i
        /\ ~ENABLED Next

\* C7 witness: the Planner failed in round 3, two records are returned.
C7_Witness ==
    /\ pc = "FAILED"
    /\ iteration_num = 3
    /\ ~result.success
    /\ Len(result.iterations) = 2

\* C8: a session fails only because a Planner call failed; every session
\* whose Planner calls all returned ends DONE with success = true, whatever
\* the other collaborators answered, and until it has returned it can always
\* take a further step.
C8_OnlyPlannerFailureFails ==
    /\ (Returned /\ ~result.success) =>
          pc = "FAILED" /\ last_call = Call("Planner", [kind |-> "exception"])
    /\ pc = "DONE" <=> (Returned /\ result.success)
    /\ pc = "FAILED" <=> (Returned /\ ~result.success)
    /\ last_call # Call("Planner", [kind |-> "exception"]) =>
          (Returned => result.success)
    /\ ~Returned => ENABLED Next

\* C8 witness: a successful session in which a graph path failed, the
\* Evaluator raised and the Report collaborator raised.
C8_Witness ==
    /\ pc = "DONE"
    /\ result.success
    /\ last_call = Call("Report", [kind |-> "exception"])
    /\ \E i \in 1..Len(result.iterations) :
          /\ ~result.iterations[i].query_success
          /\ result.iterations[i].feedback =
                "Unable to analyze combined results sufficiency"

\* C9: a session that fails in round r > 1 returns every record appended
\* during rounds 1..r-1.
C9_FailedSessionKeepsRecords ==
    (Returned /\ ~result.success) => result.records = all_records

\* the Report collaborator answered with content made of blanks only
BlankReport ==
    /\ last_call.collaborator = "Report"
    /\ last_call.reply.kind = "content"
    /\ \A i \in 1..Len(last_call.reply.text) : last_call.reply.text[i] = " "

RECURSIVE SumRecordsCount(_)
SumRecordsCount(its) ==
    IF its = <<>> THEN 0 ELSE Head(its).records_count + SumRecordsCount(Tail(its))

\* <<r, i, j>> precedes <<r2, i2, j2>>: earlier round, or earlier intent of
\* the same round, or earlier record of the same query
Precedes(a, b) ==
    \/ a[1] < b[1]
    \/ a[1] = b[1] /\ a[2] < b[2]
    \/ a[1] = b[1] /\ a[2] = b[2] /\ a[3] < b[3]

\* the accumulated list holds, for every completed round, exactly the
\* records that round counted, in round, intent and record order, each once
RecordsAccumulateInOrder ==
    /\ \A k \in 1..(Len(all_records) - 1) : Precedes(all_records[k], all_records[k + 1])
    /\ \A r \in 1..Len(iterations) :
          Cardinality({k \in 1..Len(all_records) : all_records[k][1] = r})
             = iterations[r].records_count
    /\ Len(all_records) = SumRecordsCount(iterations)

\* C11 as stated: the accumulated records keep round and intent order
\* without loss or duplication, and the record list of every returned session
\* is as long as the sum of the records_count of its iteration records.
C11_RecordsGrowAndMatchCounts ==
    /\ RecordsAccumulateInOrder
    /\ Returned => Len(result.records) = SumRecordsCount(result.iterations)

\* C12: when the Evaluator raised or refused in round r, the analysis before
\* the safety overrides is sufficient = false with confidence 0, the record
\* of round r has been appended, the session has not returned, and it goes on
\* by the stop rules alone: it stops iff the record meets the stop condition,
\* otherwise prepares the next round iff r < max_iterations, otherwise ends
\* the loop.
C12_EvaluatorFailureNotFatal ==
    (/\ pc = "DECIDE"
     /\ last_call.collaborator = "Evaluator"
     /\ last_call.reply.kind \in {"exception", "refusal"})
    => /\ ~evaluated.sufficient
       /\ evaluated.confidence = 0
       /\ Len(iterations) = iteration_num
       /\ Last(iterations).iteration_number = iteration_num
       /\ ~Returned
       /\ ENABLED Stop <=> MeetsStop(Last(iterations))
       /\ ENABLED (UseFollowup \/ RefineQuery) <=>
             (~MeetsStop(Last(iterations)) /\ iteration_num < max_iterations)
       /\ ENABLED LoopExhausted <=>
             (~MeetsStop(Last(iterations)) /\ iteration_num >= max_iterations)

\* C12 witness: a successful session with a round in which the Evaluator
\* refused and a later round.
C12_Witness ==
    /\ pc = "DONE"
    /\ result.success
    /\ Len(result.iterations) >= 2
    /\ result.iterations[1].feedback = "Analysis was refused for safety reasons"
    /\ ~result.iterations[1].sufficient
    /\ result.iterations[1].confidence = 0

\* C13: a step from DECIDE to the next round's PLANNING is taken only when
\* the round did not meet the stop condition and r < max_iterations; the next
\* query is the round's suggested_followup when it is non-empty (and then no
\* collaborator is invoked), otherwise the Refinement collaborator is invoked
\* and the next query is its stripped rewrite, or the original query when it
\* raised.  The Refinement collaborator is invoked in no other step.
C13_NextQuery ==
    [][/\ (pc = "DECIDE" /\ pc' = "PLANNING") =>
            /\ ~MeetsStop(Last(iterations))
            /\ iteration_num < max_iterations
            /\ iteration_num' = iteration_num + 1
            /\ IF sufficiency_analysis.suggested_followup # <<>>
               THEN /\ current_query' = sufficiency_analysis.suggested_followup
                    /\ last_call' = last_call
               ELSE /\ last_call'.collaborator = "Refinement"
                    /\ current_query' =
                          IF last_call'.reply.kind = "content"
                          THEN Strip(last_call'.reply.text)
                          ELSE UserQuery
       /\ (last_call' # last_call /\ last_call'.collaborator = "Refinement") =>
            /\ pc = "DECIDE"
            /\ pc' = "PLANNING"
            /\ sufficiency_analysis.suggested_followup = <<>>
            /\ ~MeetsStop(Last(iterations))
            /\ iteration_num < max_iterations
       /\ pc' # "PLANNING" => current_query' = current_query]_vars

\* C13 witness: round 2 is planned with the stripped rewrite of the
\* Refinement collaborator.
C13_Witness ==
    /\ pc = "PLANNING"
    /\ iteration_num = 2
    /\ last_call.collaborator = "Refinement"
    /\ last_call.reply.kind = "content"
    /\ last_call.reply.text = <<" ", "refined", " ">>
    /\ current_query = <<"refined">>

\* C14: a session that returned DONE without any record meeting the stop
\* condition ran exactly max_iterations rounds and is a success without error
\* message whose final answer is what the Report step produced; in round
\* max_iterations a record that does not meet the stop condition can only end
\* the loop, and the Report step can always be taken.
C14_ExhaustedLoopEndsNormally ==
    /\ (pc = "DONE" /\ \A i \in 1..Len(iterations) : ~MeetsStop(iterations[i])) =>
          /\ Len(result.iterations) = max_iterations
          /\ result.success
          /\ result.error_message = ""
          /\ last_call.collaborator = "Report"
          /\ result.final_answer = _format_final_results(result.iterations, last_call.reply)
    /\ (/\ pc = "DECIDE"
        /\ ~MeetsStop(Last(iterations))
        /\ iteration_num >= max_iterations) =>
          /\ iteration_num = max_iterations
          /\ ENABLED LoopExhausted
          /\ ~ENABLED (Stop \/ UseFollowup \/ RefineQuery)
    /\ pc = "REPORT" => ENABLED Report

\* C14 witness: MaxIter rounds, none met the stop condition, the session is a
\* success with the report's text as final answer.
C14_Witness ==
    /\ pc = "DONE"
    /\ max_iterations = MaxIter
    /\ Len(result.iterations) = MaxIter
    /\ \A i \in 1..MaxIter : ~MeetsStop(result.iterations[i])
    /\ result.success
    /\ result.error_message = ""
    /\ result.final_answer = <<"a">>

\* C15: when the Report collaborator raised or answered without content, the
\* session is a success carrying all iterations and all accumulated records,
\* and its final answer is the fixed text when there is no iteration and
\* otherwise the template with the sum of the records_count of all
\* iterations and the number of iterations.
C15_ReportFailureFallback ==
    (/\ pc = "DONE"
     /\ last_call.collaborator = "Report"
     /\ last_call.reply.kind \in {"exception", "no_content"})
    => /\ result.success
       /\ result.error_message = ""
       /\ result.iterations = iterations
       /\ result.records = all_records
       /\ result.final_answer =
             IF iterations = <<>>
             THEN <<"No search iterations completed.">>
             ELSE <<"# Analysis Results", "Found ",
                    ToString(SumRecordsCount(iterations)), " results across ",
                    ToString(Len(iterations)), " iterations.">>

\* C15 witness: the Report collaborator raised after two rounds, one whose
\* graph queries all failed and one that returned a record.
C15_Witness ==
    /\ pc = "DONE"
    /\ last_call.collaborator = "Report"
    /\ last_call.reply.kind = "exception"
    /\ Len(result.iterations) = 2
    /\ ~result.iterations[1].query_success
    /\ result.iterations[2].records_count = 1
    /\ result.final_answer =
          <<"# Analysis Results", "Found ", "1", " results across ", "2", " iterations.">>

\* C16 as stated: the Report prompt holds, in iteration order, the summary of
\* every iteration whose fused summary reports successful intents.
C16_ReportGetsEverySummary ==
    pc = "DONE" =>
        /\ \A k \in 1..(Len(search_results) - 1) :
              search_results[k][1] < search_results[k + 1][1]
        /\ \A i \in 1..Len(iterations) :
              iterations[i].result_summary = "**Comprehensive Analysis Results**" =>
                  \E k \in 1..Len(search_results) :
                      search_results[k] = <<i, iterations[i].result_summary>>

\* the graph_result dict of the except branch, lines 135-142
FailedGraphPath ==
    [success |-> FALSE, records_count |-> 0, has_result |-> FALSE, records |-> <<>>]

\* C17: the store is invoked only on the branches where validation passed;
\* when validation of an intent's query failed, the last collaborator of the
\* graph path is the Validator and not the store, the intent's graph path is
\* the failure dict (success = false, 0 records, no result), the document
\* path of the intent can be taken, and no path without a result contributes
\* a record.
C17_StoreOnlyAfterValidation ==
    /\ last_call.collaborator = "Store" =>
          last_call.reply.kind \in {"store_failed", "executed"}
    /\ last_call.reply.kind = "validation_failed" =>
          last_call.collaborator = "Validator"
    /\ (pc = "EXECUTING_RAG" /\ last_call.reply.kind = "validation_failed") =>
          /\ intent_result.graph_result = FailedGraphPath
          /\ ENABLED RagPath
          /\ ~Returned
    /\ \A k \in 1..Len(all_intent_results) :
          ~all_intent_results[k].graph_result.has_result =>
              all_intent_results[k].graph_result = FailedGraphPath

\* C17 witness: validation of the second intent's query failed in a session
\* with a document index, after the first intent's query was executed.
C17_Witness ==
    /\ pc = "EXECUTING_RAG"
    /\ rag_system = "CodeRAGSystem"
    /\ last_call = Call("Validator", [kind |-> "validation_failed"])
    /\ Len(all_intent_results) = 1
    /\ all_intent_results[1].graph_result.success
    /\ intent_result.graph_result = FailedGraphPath

\* C18: while the intents of a round are processed the session has not
\* returned; whatever the paths answered, the graph path of the next intent
\* and then its document path can be taken, one intent result is appended
\* per intent, and the round reaches EVALUATING with exactly one intent
\* result for each intent the Planner returned.
C18_FailuresIsolated ==
    /\ pc = "EXECUTING_GRAPH" =>
          /\ Len(all_intent_results) < query_intents
          /\ intent_result = NoResult
          /\ ENABLED GraphPath
    /\ pc = "EXECUTING_RAG" =>
          /\ Len(all_intent_results) < query_intents
          /\ intent_result # NoResult
          /\ ENABLED RagPath
    /\ pc = "EVALUATING" =>
          /\ Len(all_intent_results) = query_intents
          /\ ENABLED EvaluateRound
    /\ pc \in {"EXECUTING_GRAPH", "EXECUTING_RAG", "EVALUATING"} =>
          /\ ~Returned
          /\ query_intents >= 1
          /\ Len(iterations) = iteration_num - 1

\* C18 witness: both paths of the first intent failed (the document search
\* raised) and both paths of the second intent returned something.
C18_Witness ==
    /\ pc = "EVALUATING"
    /\ rag_system = "CodeRAGSystem"
    /\ query_intents = 2
    /\ Len(all_intent_results) = 2
    /\ all_intent_results[1].graph_result = FailedGraphPath
    /\ ~all_intent_results[1].rag_result.success
    /\ all_intent_results[2].graph_result.records_count = 1
    /\ all_intent_results[2].rag_result.documents_count = 1

\* C19: every intent result has success = (graph.success AND graph count > 0)
\* OR (document.success AND document count > 0); when only one path
\* succeeded, success is whether that path's count is positive.
C19_IntentSuccessFormula ==
    \A k \in 1..Len(all_intent_results) :
        LET g == all_intent_results[k].graph_result
            d == all_intent_results[k].rag_result
            success == all_intent_results[k].success
        IN /\ success <=> ((g.success /\ g.records_count > 0)
                              \/ (d.success /\ d.documents_count > 0))
           /\ (~g.success /\ d.success) => (success <=> d.documents_count > 0)
           /\ (g.success /\ ~d.success) => (success <=> g.records_count > 0)
           /\ (~g.success /\ ~d.success) => ~success

\* C19 witness: an intent whose graph path failed and whose document search
\* found a document is a success, next to an intent whose query returned no
\* record and whose document search failed, which is not.
C19_Witness ==
    /\ Len(all_intent_results) = 2
    /\ ~all_intent_results[1].graph_result.success
    /\ all_intent_results[1].rag_result.success
    /\ all_intent_results[1].rag_result.documents_count = 1
    /\ all_intent_results[1].success
    /\ all_intent_results[2].graph_result.success
    /\ all_intent_results[2].graph_result.records_count = 0
    /\ ~all_intent_results[2].rag_result.success
    /\ ~all_intent_results[2].success

\* C20 as stated: the query_success stored for a round is true iff at least
\* one intent result of the round has success = true.
C20_QuerySuccessIffAnIntentSucceeded ==
    [][pc = "EVALUATING" =>
          (Last(iterations').query_success
              <=> \E k \in 1..Len(all_intent_results) : all_intent_results[k].success)]_vars

\* C20 amended: the query_success stored for a round is true iff the
\* structured-store query of at least one intent of the round executed
\* successfully, whatever its record count and whatever the document paths
\* returned.
C20_QuerySuccessIffAGraphQueryExecuted ==
    [][pc = "EVALUATING" =>
          /\ Len(iterations') = Len(iterations) + 1
          /\ Last(iterations').query_success
                <=> \E k \in 1..Len(all_intent_results) :
                       all_intent_results[k].graph_result.success]_vars

\* C20 witness: round 1 executed a query that returned no record and found
\* no document (no intent succeeded) and has query_success; in round 2 the
\* graph path failed and a document was found (the intent succeeded) and
\* query_success is false.
C20_Witness ==
    /\ Len(iterations) = 2
    /\ iterations[1].query_success
    /\ iterations[1].records_count = 0
    /\ iterations[1].rag_documents_count = 0
    /\ ~iterations[2].query_success
    /\ iterations[2].rag_documents_count = 1

\* C25: the round is evaluated (and the Evaluator invoked) only from
\* EVALUATING, when every intent of the round has an intent result holding
\* both its graph path and its document path; the next round's PLANNING is
\* entered only from DECIDE, when the record and the analysis of the current
\* round exist, and the Planner is invoked only in PLANNING, with one record
\* for each earlier round.
C25_RoundsSequential ==
    [][/\ ((pc # "DECIDE" /\ pc' = "DECIDE")
             \/ (last_call' # last_call /\ last_call'.collaborator = "Evaluator")) =>
            /\ pc = "EVALUATING"
            /\ pc' = "DECIDE"
            /\ query_intents >= 1
            /\ Len(all_intent_results) = query_intents
            /\ \A k \in 1..Len(all_intent_results) :
                  DOMAIN all_intent_results[k] = {"graph_result", "rag_result", "success"}
            /\ Len(iterations') = iteration_num
            /\ evaluated' # NoResult
       /\ (pc # "PLANNING" /\ pc' = "PLANNING") =>
            /\ pc = "DECIDE"
            /\ Len(iterations) = iteration_num
            /\ sufficiency_analysis # NoResult
            /\ iteration_num' = iteration_num + 1
       /\ (last_call' # last_call /\ last_call'.collaborator = "Planner") =>
            /\ pc = "PLANNING"
            /\ Len(iterations) = iteration_num - 1]_vars

\* C25 witness: round 2 is being planned after a round of two intents, each
\* of which returned a record.
C25_Witness ==
    /\ pc = "PLANNING"
    /\ iteration_num = 2
    /\ Len(iterations) = 1
    /\ iterations[1].records_count = 2
    /\ last_call.collaborator = "Evaluator"

\* C26 as stated: between two rounds the session can return the iterations
\* and records completed so far without invoking a further collaborator.
C26_CancellableBetweenRounds ==
    (pc = "PLANNING" /\ iteration_num >= 2) =>
        ENABLED (/\ Next
                 /\ result' # NoResult
                 /\ result'.iterations = iterations
                 /\ last_call' = last_call)

\* C28: under a threshold of at most 0.8, a record of a round r >= 3 with
\* query_success meets the stop condition and is the last record: from DECIDE
\* the session can only stop; so a session that is in round 4 or later has a
\* round 3 without query_success.
C28_ExecutedRoundFrom3IsLast ==
    sufficiency_threshold <= DefaultThreshold =>
        /\ \A i \in 3..Len(iterations) :
              iterations[i].query_success =>
                  /\ MeetsStop(iterations[i])
                  /\ i = Len(iterations)
                  /\ pc \in {"DECIDE", "REPORT", "DONE"}
                  /\ pc = "DECIDE" =>
                        /\ ENABLED Stop
                        /\ ~ENABLED (UseFollowup \/ RefineQuery \/ LoopExhausted)
        /\ iteration_num >= 4 => ~iterations[3].query_success

\* C28 witness: under threshold 0.5 a session allowed MaxIter rounds returned
\* after round 3, whose query executed with zero records while the analysis
\* before the overrides was insufficient.
C28_Witness ==
    /\ pc = "DONE"
    /\ sufficiency_threshold = 5
    /\ max_iterations = MaxIter
    /\ Len(result.iterations) = 3
    /\ ~result.iterations[2].sufficient
    /\ result.iterations[3].query_success
    /\ result.iterations[3].records_count = 0
    /\ result.iterations[3].confidence = 9

\* C29: in a round r >= 3 with query_success and zero records the record is
\* sufficient with confidence 0.9 and empty feedback whatever the number of
\* documents found, and in a round without query_success the analysis is the
\* one the Evaluator step produced, whatever the number of documents.
C29_OverridesLookAtGraphOnly ==
    pc = "DECIDE" =>
        /\ (/\ Last(iterations).query_success
            /\ Last(iterations).records_count = 0
            /\ iteration_num >= 3) =>
              /\ Last(iterations).sufficient
              /\ Last(iterations).confidence = 9
              /\ Last(iterations).feedback = ""
              /\ sufficiency_analysis.suggested_followup = <<>>
        /\ ~Last(iterations).query_success =>
              /\ sufficiency_analysis = evaluated
              /\ Last(iterations).sufficient = evaluated.sufficient
              /\ Last(iterations).confidence = evaluated.confidence

\* C29 witness: in round 3 a query executed with zero records, a document
\* was found, the Evaluator judged the round insufficient, and the record is
\* sufficient with confidence 0.9.
C29_Witness ==
    /\ pc = "DECIDE"
    /\ iteration_num = 3
    /\ Last(iterations).query_success
    /\ Last(iterations).records_count = 0
    /\ Last(iterations).rag_documents_count = 1
    /\ last_call.collaborator = "Evaluator"
    /\ ~evaluated.sufficient
    /\ Last(iterations).sufficient
    /\ Last(iterations).confidence = 9

\* the round just evaluated found no record and no document
NoEvidenceRound ==
    /\ pc = "DECIDE"
    /\ Last(iterations).records_count = 0
    /\ Last(iterations).rag_documents_count = 0

\* the Evaluator raised or refused in the round just evaluated
EvaluatorFailedRound ==
    /\ pc = "DECIDE"
    /\ last_call.collaborator = "Evaluator"
    /\ last_call.reply.kind \in {"exception", "refusal"}

\* the zero-record override acted on the round just evaluated
ZeroRecordRoundForced ==
    /\ pc = "DECIDE"
    /\ Last(iterations).query_success
    /\ Last(iterations).records_count = 0
    /\ iteration_num >= MinIterationNoData

\* C30 as stated: after a round without any evidence, or after an Evaluator
\* failure, a session that continues gives the original query to the next
\* round's Planner without invoking the Refinement collaborator.
C30_NoEvidenceReusesOriginalQuery ==
    [][((NoEvidenceRound \/ EvaluatorFailedRound) /\ pc' = "PLANNING") =>
          /\ current_query' = UserQuery
          /\ last_call' = last_call]_vars

\* C30 amended: in a round without any evidence the Evaluator is not invoked
\* and the analysis before the overrides is insufficient with confidence 0
\* and the original query as follow-up, as it is after an Evaluator failure;
\* a session that continues then reuses the original query without invoking
\* the Refinement collaborator, unless the zero-record override cleared the
\* follow-up of the round, in which case the Refinement collaborator is
\* invoked.
C30_NoEvidenceReusesOriginalQueryUnlessForced ==
    [][/\ NoEvidenceRound =>
            /\ last_call.collaborator \notin {"Evaluator", "Refinement"}
            /\ evaluated = SufficiencyAnalysis(FALSE, 0,
                  "No results found from either graph database or document search",
                  UserQuery)
       /\ EvaluatorFailedRound =>
            /\ ~evaluated.sufficient
            /\ evaluated.confidence = 0
            /\ evaluated.suggested_followup = UserQuery
       /\ ((NoEvidenceRound \/ EvaluatorFailedRound) /\ pc' = "PLANNING") =>
            IF ZeroRecordRoundForced
            THEN /\ sufficiency_threshold > ConfidenceNoData
                 /\ last_call'.collaborator = "Refinement"
                 /\ current_query' \in {Strip(RefinedText), UserQuery}
            ELSE /\ current_query' = UserQuery
                 /\ last_call' = last_call]_vars

\* C30 witness: round 2 is planned with the original query after a round
\* without evidence in which no Evaluator and no Refinement was invoked.
C30_Witness ==
    /\ pc = "PLANNING"
    /\ iteration_num = 2
    /\ current_query = UserQuery
    /\ iterations[1].feedback =
          "No results found from either graph database or document search"
    /\ last_call.collaborator \in {"Translator", "Validator", "Store"}

\* ---------------------------------------------------- Translator claims
Validated == translation.stage \in {"returned", "raised", "executed"}

RECURSIVE WithoutBlanksAndFences(_)
WithoutBlanksAndFences(q) ==
    IF q = <<>> THEN <<>>
    ELSE (IF Head(q) \in Blanks \cup Fences THEN <<>> ELSE <<Head(q)>>)
         \o WithoutBlanksAndFences(Tail(q))

\* no fence, no line break, no blank at an end, no two blanks in a row
IsCleanText(q) ==
    /\ \A k \in 1..Len(q) : q[k] \notin Fences /\ q[k] # "\n"
    /\ q # <<>> => (q[1] # " " /\ q[Len(q)] # " ")
    /\ \A k \in 1..(Len(q) - 1) : ~(q[k] = " " /\ q[k + 1] = " ")

SingleBranch(q) == UnionWords(q) = {}

Balanced(q) == \A pair \in BracketPairs : Count(q, pair[1]) = Count(q, pair[2])

HasKeywords(q) ==
    /\ \E keyword \in required_keywords : Contains(q, keyword)
    /\ Contains(q, "MATCH") => Contains(q, "RETURN")

\* C22 as stated: a single-branch query with balanced brackets and the
\* keywords it needs is accepted.
C22_BalancedSingleBranchAccepted ==
    (/\ Validated
     /\ SingleBranch(translation.cypher_query)
     /\ Balanced(translation.cypher_query)
     /\ HasKeywords(translation.cypher_query))
        => translation.valid

\* C22 amended: a single-branch query with balanced brackets and the keywords
\* it needs is accepted when it is at least 5 characters long and has no
\* exists(...) call on a dotted property.
C22_LongEnoughSingleBranchAccepted ==
    (/\ Validated
     /\ SingleBranch(translation.cypher_query)
     /\ Balanced(translation.cypher_query)
     /\ HasKeywords(translation.cypher_query)
     /\ TextLen(StripBlanks(translation.cypher_query)) >= MinQueryLength
     /\ ~HasDeprecatedExists(translation.cypher_query))
        => translation.valid

C22_Witness ==
    /\ translation.stage = "returned"
    /\ SingleBranch(translation.cypher_query)
    /\ Contains(translation.cypher_query, "UNION")
    /\ translation.valid

\* the branches of a union query that have a RETURN clause do not all list
\* the same number of names, or differ in the name at some position
UnionMismatch(q) ==
    LET union_parts == Split(q, UnionWords(q))
        columns == return_columns(union_parts)
    IN /\ Len(union_parts) >= 2
       /\ \E i \in 1..Len(columns), k \in 1..Len(columns) :
              \/ Len(columns[i]) # Len(columns[k])
              \/ \E j \in 1..Len(columns[i]) :
                     j <= Len(columns[k]) /\ columns[i][j] # columns[k][j]

SameCountOtherNames(q) ==
    LET union_parts == Split(q, UnionWords(q))
        columns == return_columns(union_parts)
    IN /\ Len(union_parts) >= 2
       /\ \A i \in 1..Len(columns) : Len(columns[i]) = Len(columns[1])
       /\ \E i \in 1..Len(columns), j \in 1..Len(columns[1]) :
              columns[i][j] # columns[1][j]

\* C23 as stated: a query is rejected exactly when it is a union query with a
\* column count or column name mismatch.
C23_RejectedIffUnionMismatch ==
    Validated => (~translation.valid <=> UnionMismatch(translation.cypher_query))

\* C23 amended: a query is rejected exactly when it is empty or shorter than
\* 5 characters, lacks the keywords it needs, has unbalanced brackets, is a
\* union query with a column count or column name mismatch, or calls
\* exists(...) on a dotted property.
C23_RejectedIffSomeRuleFails ==
    Validated =>
        (~translation.valid <=>
            \/ TextLen(StripBlanks(translation.cypher_query)) < MinQueryLength
            \/ ~HasKeywords(translation.cypher_query)
            \/ ~Balanced(translation.cypher_query)
            \/ UnionMismatch(translation.cypher_query)
            \/ HasDeprecatedExists(translation.cypher_query))

C23_Witness ==
    /\ translation.stage = "raised"
    /\ SameCountOtherNames(translation.cypher_query)
    /\ Balanced(translation.cypher_query)
    /\ ~HasDeprecatedExists(translation.cypher_query)

\* C24: a union query whose branches list the same number of columns under
\* different names is accepted.
C24_NameMismatchAccepted ==
    (/\ Validated
     /\ SameCountOtherNames(translation.cypher_query)
     /\ Balanced(translation.cypher_query)
     /\ HasKeywords(translation.cypher_query)
     /\ ~HasDeprecatedExists(translation.cypher_query))
        => translation.valid

\* ---------------------------------------------------- concurrent sessions
\* the records of the rounds that call s has completed, in round order
RECURSIVE OwnRecords(_, _)
OwnRecords(s, log) ==
    IF log = <<>> THEN <<>>
    ELSE OwnRecords(s, SubSeq(log, 1, Len(log) - 1))
         \o SessionRecords(s, log[Len(log)].iteration_number, log[Len(log)].records_count)

OwnLists(s) ==
    LET local == sessions[s]
    IN /\ \A k \in 1..Len(local.iterations) :
              /\ local.iterations[k].iteration_number = k
              /\ local.iterations[k].query \in {user_query(s), <<"refined", s>>}
       /\ Len(local.iterations) =
              IF local.pc \in {"PLANNING", "EXECUTING", "COLLECTING"}
              THEN local.iteration_num - 1 ELSE Len(local.iterations)
       /\ local.all_records = OwnRecords(s, local.iterations)
       /\ local.result # NoResult =>
              /\ local.result.iterations = local.iterations
              /\ local.result.success => local.result.records = local.all_records

====
